---- MODULE Spec2Model ----
(***************************************************************************)
(* A model of colorednoise.powerlaw_psd_gaussian(exponent, size, fmin).    *)
(*                                                                         *)
(* One call is a run of the function's statements in program order; `pc`   *)
(* is the position in the body.  Real numbers are exact rationals <<n, d>> *)
(* (d > 0, lowest terms), so the model covers the exponents whose scale is *)
(* rational (even integers).  Arrays are their flat C-order data; the      *)
(* shape is kept beside them.  Python 3 semantics (1/samples is a true     *)
(* division).                                                              *)
(***************************************************************************)
EXTENDS Integers, Sequences, FiniteSets

(* ------------------------------ bounds -------------------------------- *)
MaxSamples == 6
MaxBatch == 2
MaxHalfExp == 1
FminDen == 6
MaxFminNum == 4
DetSamples == 2
DetBatch == 2

(* ------------------------- exact rational numbers --------------------- *)
Abs(a) == IF a < 0 THEN 0 - a ELSE a

RECURSIVE GCD(_, _)
GCD(a, b) == IF b = 0 THEN a ELSE GCD(b, a % b)

R(n, d) ==
    LET g == GCD(Abs(n), Abs(d))
        sg == IF d < 0 THEN 0 - 1 ELSE 1
    IN  <<(sg * n) \div g, (sg * d) \div g>>

RZero == <<0, 1>>
ROne == <<1, 1>>
RInt(k) == <<k, 1>>
RAdd(x, y) ==
    LET l == (x[2] \div GCD(x[2], y[2])) * y[2]
    IN  R(x[1] * (l \div x[2]) + y[1] * (l \div y[2]), l)
RMul(x, y) ==
    LET a == R(x[1], y[2])
        b == R(y[1], x[2])
    IN  R(a[1] * b[1], a[2] * b[2])
RInv(x) == R(x[2], x[1])
RLt(x, y) == x[1] * y[2] < y[1] * x[2]
RAbs(x) == <<Abs(x[1]), x[2]>>
RIsInt(x) == x[2] = 1

RECURSIVE RPow(_, _)
RPow(x, p) ==
    IF p = 0 THEN ROne
    ELSE IF p < 0 THEN RInv(RPow(x, 0 - p))
    ELSE RMul(x, RPow(x, p - 1))

RECURSIVE RSum(_)
RSum(xs) == IF xs = <<>> THEN RZero ELSE RAdd(Head(xs), RSum(Tail(xs)))

RECURSIVE Prod(_)
Prod(ds) == IF ds = <<>> THEN 1 ELSE Head(ds) * Prod(Tail(ds))

Last(xs) == xs[Len(xs)]

(* ------------------------------ state --------------------------------- *)
VARIABLES
    pc,         \* position in the body of powerlaw_psd_gaussian
    exponent,   \* argument
    sizeArg,    \* argument `size` as passed: [iter, dims]
    fmin,       \* argument
    size,       \* the list `size`
    samples,    \* size[-1]
    f,          \* fftfreq(samples)
    s_scale,    \* the scale array (weights is the same array)
    sr, si,     \* the drawn real and imaginary parts (flat, shape = size)
    y,          \* irfft output: [shape, data]
    weights,    \* weights**2 (a new array)
    std,        \* the SQUARE of `std` (std itself is its square root)
    out,        \* the returned array: [shape, data]
    error,      \* the exception that ended the call, "" if none
    rng,        \* the global random stream: [seed, pos]
    rngAtCall,  \* the stream state when the call began
    drawn,      \* [sr, si] exactly as normal() returned them
    spectrum,   \* s * s_scale, the array handed to irfft (flat, complex pairs)
    prev        \* the previous completed call

args == <<exponent, sizeArg, fmin>>
locals == <<size, samples, f, s_scale, sr, si, y, weights, std, out, drawn, spectrum>>
vars == <<pc, args, locals, error, rng, rngAtCall, prev>>

(* ------------------------------ inputs -------------------------------- *)
\* a dimension is a number: an integer (possibly <= 0) or a non-integer
Dims(maxv) == {RInt(d) : d \in (0 - 1)..maxv} \cup {R(1, 2)}

\* the batch dimensions: at most two, and at most MaxBatch series in all
BatchLists ==
    {b \in UNION {[1..r -> Dims(MaxBatch)] : r \in 0..2} :
        (\A i \in 1..Len(b) : b[i][2] = 1 /\ b[i][1] > 0)
            => Prod([i \in 1..Len(b) |-> b[i][1]]) <= MaxBatch}

SizeLists ==
    {<<>>} \cup {b \o <<n>> : b \in BatchLists, n \in Dims(MaxSamples)}

\* `size` is an iterable (iter) or a bare number
SizeArgs ==
    {[iter |-> TRUE, dims |-> l] : l \in SizeLists}
    \cup {[iter |-> FALSE, dims |-> <<n>>] : n \in Dims(MaxSamples)}

Exponents == {2 * h : h \in (0 - MaxHalfExp)..MaxHalfExp}
Fmins == {R(a, FminDen) : a \in (0 - 1)..MaxFminNum}
\* states of the global stream a call may start from
Seeds == {0}

DetSizeArgs ==
    {[iter |-> TRUE, dims |-> b \o <<RInt(n)>>] :
        b \in {<<>>} \cup {<<RInt(d)>> : d \in 1..DetBatch}, n \in 1..DetSamples}
DetExponents == {0, 2}
DetFmins == {RZero, R(1, 2)}
DetSeeds == {0, 1}

NoArray == [shape |-> <<>>, data |-> <<>>]
NoDraws == [sr |-> <<>>, si |-> <<>>]
NoCall == [called |-> FALSE, exponent |-> 0, sizeArg |-> [iter |-> TRUE, dims |-> <<>>],
           fmin |-> RZero, rngBefore |-> [seed |-> 0, pos |-> 0],
           rngAfter |-> [seed |-> 0, pos |-> 0], out |-> NoArray, error |-> ""]

Enter(e, sz, fm, r) ==
    /\ pc = "start"
    /\ exponent = e /\ sizeArg = sz /\ fmin = fm
    /\ size = <<>> /\ samples = RZero /\ f = <<>> /\ s_scale = <<>>
    /\ sr = <<>> /\ si = <<>> /\ drawn = NoDraws /\ spectrum = <<>>
    /\ y = NoArray /\ weights = <<>> /\ std = RZero /\ out = NoArray
    /\ error = ""
    /\ rng = r /\ rngAtCall = r

Init ==
    /\ \E e \in Exponents, sz \in SizeArgs, fm \in Fmins, sd \in Seeds :
          Enter(e, sz, fm, [seed |-> sd, pos |-> 0])
    /\ prev = NoCall

(* --------------------------- numpy primitives ------------------------- *)
\* numpy.fft.fftfreq(n) for a positive integer n, unit sample spacing
FftFreq(n) ==
    LET N == (n - 1) \div 2 + 1
    IN  [i \in 1..n |-> IF i <= N THEN R(i - 1, n)
                        ELSE R((i - N - 1) - (n \div 2), n)]

\* the draw at stream position p of the stream seeded with sd
Normal(sd, p) == ((p * p + (sd + 1) * p + sd + 1) % 5) - 2

\* normal(size=shape) called with the stream at position p: n values in order
NormalArray(sd, p, n) == [i \in 1..n |-> Normal(sd, p + i - 1)]

\* the bin (1-based) of flat index i in an array whose last axis has nb entries
Bin(i, nb) == ((i - 1) % nb) + 1

\* multiplicity of bin k (0-based) in the Hermitian spectrum of n points
Fold(k, n) == IF k = 0 \/ 2 * k = n THEN 1 ELSE 2

\* one output point of irfft(row, n): the coefficients <<a_j, b_j>> of
\* a_j cos(2 pi j / n) - b_j sin(2 pi j / n), j = 0..n-1, already divided by n
IrfftPoint(row, n, t) ==
    [jj \in 1..n |->
        LET j == jj - 1
            re == [kk \in 1..Len(row) |->
                      IF ((kk - 1) * t) % n = j
                      THEN RMul(RInt(Fold(kk - 1, n)), row[kk][1]) ELSE RZero]
            im == [kk \in 1..Len(row) |->
                      IF ((kk - 1) * t) % n = j /\ Fold(kk - 1, n) = 2
                      THEN RMul(RInt(2), row[kk][2]) ELSE RZero]
        IN  <<RMul(RSum(re), R(1, n)), RMul(RSum(im), R(1, n))>>]

\* irfft(a, n=n, axis=-1) of a flat array whose last axis has nb entries
Irfft(a, nb, n) ==
    [i \in 1..((Len(a) \div nb) * n) |->
        LET b == (i - 1) \div n
            t == (i - 1) % n
        IN  IrfftPoint(SubSeq(a, b * nb + 1, b * nb + nb), n, t)]

(* ------------------------ steps of the function ----------------------- *)
\* lines 57-60: list(size), or [size] when size is not iterable
ListOf(sz) == sz.dims

\* line 69-70: abs(f[:samples//2 + 1]) with the DC entry set to 1/samples
ScaleMagnitude(ff, n) ==
    LET m == IF n \div 2 + 1 < Len(ff) THEN n \div 2 + 1 ELSE Len(ff)
    IN  [k \in 1..m |-> IF k = 1 THEN R(1, n) ELSE RAbs(ff[k])]

IxInclusive(s, fm) == Cardinality({k \in 1..Len(s) : ~RLt(fm, s[k])})

\* line 77: ix = sum(s_scale < fmin)
Ix(s, fm) == Cardinality({k \in 1..Len(s) : RLt(s[k], fm)})

CutoffLastBelow(s, fm) ==
    IF fm # RZero
    THEN IF Ix(s, fm) < Len(s)
         THEN [k \in 1..Len(s) |-> IF k <= Ix(s, fm) THEN s[Ix(s, fm)] ELSE s[k]]
         ELSE s
    ELSE s

\* lines 76-79: the low-frequency cutoff
Cutoff(s, fm) ==
    IF fm # RZero
    THEN IF Ix(s, fm) < Len(s)
         THEN [k \in 1..Len(s) |-> IF k <= Ix(s, fm) THEN s[Ix(s, fm) + 1] ELSE s[k]]
         ELSE s
    ELSE s

\* line 80: s_scale ** (-exponent / 2.)
HalfPower(e) == (0 - e) \div 2
Power(s, e) == [k \in 1..Len(s) |-> RPow(s[k], HalfPower(e))]

\* line 66: what fftfreq(samples) raises ("" when it returns): numpy rejects a
\* non-integer n (ValueError), divides by n (ZeroDivisionError) and allocates
\* n entries (ValueError when n < 0)
FftFreqError(n) ==
    IF ~RIsInt(n) THEN "ValueError"
    ELSE IF n = RZero THEN "ZeroDivisionError"
    ELSE IF RLt(n, RZero) THEN "ValueError"
    ELSE ""

NormalErrorLax(sz) ==
    IF \E i \in 1..Len(sz) : ~RIsInt(sz[i]) THEN "TypeError" ELSE ""

\* lines 88-89: what normal(size=size) raises ("" when it returns): numpy
\* rejects a non-integer dimension (TypeError) and a negative one
\* (ValueError); a zero dimension gives an empty array
NormalError(sz) ==
    IF \E i \in 1..Len(sz) : ~RIsInt(sz[i]) THEN "TypeError"
    ELSE IF \E i \in 1..Len(sz) : RLt(sz[i], RZero) THEN "ValueError"
    ELSE ""

DrawCountBatchOnly(sz) == Prod([i \in 1..(Len(sz) - 1) |-> sz[i][1]])

\* lines 88-89: how many variates one call of normal(size=size) draws
DrawCount(sz) == Prod([i \in 1..Len(sz) |-> sz[i][1]])

ZeroNyquistAlways(a, n, nb) ==
    [i \in 1..Len(a) |-> IF Bin(i, nb) = nb THEN 0 ELSE a[i]]

\* line 93: the Nyquist coefficient of an even-length signal is made real
ZeroNyquist(a, n, nb) ==
    IF n % 2 = 0 THEN [i \in 1..Len(a) |-> IF Bin(i, nb) = nb THEN 0 ELSE a[i]]
    ELSE a

\* line 96: the DC coefficient is made real
ZeroDC(a, nb) == [i \in 1..Len(a) |-> IF Bin(i, nb) = 1 THEN 0 ELSE a[i]]

\* lines 100-101: (sr + 1J * si) * s_scale, s_scale broadcast along the last axis
Scaled(re, im, scale) ==
    [i \in 1..Len(re) |->
        <<RMul(RInt(re[i]), scale[Bin(i, Len(scale))]),
          RMul(RInt(im[i]), scale[Bin(i, Len(scale))])>>]

NyquistFactorOne(n) == ROne

\* line 107: the factor applied to the last weight
NyquistFactor(n) == R(1 + (n % 2), 2)

\* lines 105-107: the in-place writes through the alias `weights`
InPlaceWeights(s, n) ==
    LET w == [s EXCEPT ![1] = RZero]
    IN  [w EXCEPT ![Len(w)] = RMul(@, NyquistFactor(n))]

\* line 108: weights ** 2
Squared(w) == [k \in 1..Len(w) |-> RMul(w[k], w[k])]

StdSqUnfolded(w, n) == RMul(RInt(2), RMul(RSum(w), R(1, n * n)))

\* line 109: std = 2 * sqrt(weights.sum()) / samples, as its square
StdSq(w, n) == RMul(RInt(4), RMul(RSum(w), R(1, n * n)))

\* line 110: one element of y / std; numpy yields inf or nan when std = 0
Divide(v, stdsq) == [finite |-> stdsq # RZero, num |-> v, denSq |-> stdsq]

(* ------------------------------ actions ------------------------------- *)
Raise(e) == pc' = "failed" /\ error' = e

\* lines 57-63: size = list(size) or [size]; samples = size[-1]
Resolve ==
    /\ pc = "start"
    /\ size' = ListOf(sizeArg)
    /\ IF ListOf(sizeArg) = <<>>
       THEN Raise("IndexError") /\ UNCHANGED samples
       ELSE pc' = "freq" /\ samples' = Last(ListOf(sizeArg)) /\ UNCHANGED error
    /\ UNCHANGED <<args, f, s_scale, sr, si, y, weights, std, out, drawn, spectrum,
                   rng, rngAtCall, prev>>

\* line 66: f = fftfreq(samples)
Frequencies ==
    /\ pc = "freq"
    /\ IF FftFreqError(samples) # ""
       THEN Raise(FftFreqError(samples)) /\ UNCHANGED f
       ELSE pc' = "scale" /\ f' = FftFreq(samples[1]) /\ UNCHANGED error
    /\ UNCHANGED <<args, size, samples, s_scale, sr, si, y, weights, std, out, drawn,
                   spectrum, rng, rngAtCall, prev>>

\* lines 69-73: the positive-frequency magnitudes; size[-1] = len(s_scale)
Magnitudes ==
    /\ pc = "scale"
    /\ s_scale' = ScaleMagnitude(f, samples[1])
    /\ size' = [size EXCEPT ![Len(size)] = RInt(Len(ScaleMagnitude(f, samples[1])))]
    /\ pc' = "cutoff"
    /\ UNCHANGED <<args, samples, f, sr, si, y, weights, std, out, drawn, spectrum,
                   error, rng, rngAtCall, prev>>

\* lines 76-79
LowCutoff ==
    /\ pc = "cutoff"
    /\ s_scale' = Cutoff(s_scale, fmin)
    /\ pc' = "power"
    /\ UNCHANGED <<args, size, samples, f, sr, si, y, weights, std, out, drawn,
                   spectrum, error, rng, rngAtCall, prev>>

\* lines 80-85: the exponent; the reshape is a view of the same data
ApplyExponent ==
    /\ pc = "power"
    /\ s_scale' = Power(s_scale, exponent)
    /\ pc' = "draw"
    /\ UNCHANGED <<args, size, samples, f, sr, si, y, weights, std, out, drawn,
                   spectrum, error, rng, rngAtCall, prev>>

\* lines 88-89: sr = normal(size=size); si = normal(size=size)
Draw ==
    /\ pc = "draw"
    /\ IF NormalError(size) # ""
       THEN Raise(NormalError(size)) /\ UNCHANGED <<sr, si, drawn, rng>>
       ELSE /\ pc' = "symmetry"
            /\ sr' = NormalArray(rng.seed, rng.pos, DrawCount(size))
            /\ si' = NormalArray(rng.seed, rng.pos + DrawCount(size), DrawCount(size))
            /\ drawn' = [sr |-> sr', si |-> si']
            /\ rng' = [rng EXCEPT !.pos = @ + 2 * DrawCount(size)]
            /\ UNCHANGED error
    /\ UNCHANGED <<args, size, samples, f, s_scale, y, weights, std, out, spectrum,
                   rngAtCall, prev>>

\* lines 93-96: the imaginary parts that must vanish
Symmetry ==
    /\ pc = "symmetry"
    /\ si' = ZeroDC(ZeroNyquist(si, samples[1], Len(s_scale)), Len(s_scale))
    /\ pc' = "transform"
    /\ UNCHANGED <<args, size, samples, f, s_scale, sr, y, weights, std, out, drawn,
                   spectrum, error, rng, rngAtCall, prev>>

\* lines 100-101: y = irfft(s * scale, n=n, axis=-1)
TransformWith(scale, n) ==
    /\ pc = "transform"
    /\ spectrum' = Scaled(sr, si, scale)
    /\ y' = [shape |-> [i \in 1..Len(size) |->
                           IF i = Len(size) THEN n ELSE size[i][1]],
             data |-> Irfft(Scaled(sr, si, scale), Len(scale), n)]
    /\ pc' = "normalize"
    /\ UNCHANGED <<args, size, samples, f, s_scale, sr, si, weights, std, out, drawn,
                   error, rng, rngAtCall, prev>>

\* irfft called without n=: the output length defaults to 2 * (bins - 1)
TransformDefaultLength == TransformWith(s_scale, 2 * (Len(s_scale) - 1))

\* the normalizer's in-place writes done before the multiplication
TransformAfterWeights ==
    TransformWith(InPlaceWeights(s_scale, samples[1]), samples[1])

\* lines 100-101 with the scale array and n=samples
Transform == TransformWith(s_scale, samples[1])

\* lines 105-109: weights aliases s_scale, so lines 106-107 write s_scale
Normalize ==
    /\ pc = "normalize"
    /\ s_scale' = InPlaceWeights(s_scale, samples[1])
    /\ weights' = Squared(InPlaceWeights(s_scale, samples[1]))
    /\ std' = StdSq(Squared(InPlaceWeights(s_scale, samples[1])), samples[1])
    /\ pc' = "return"
    /\ UNCHANGED <<args, size, samples, f, sr, si, y, out, drawn, spectrum,
                   error, rng, rngAtCall, prev>>

\* line 110: return y / std
Return ==
    /\ pc = "return"
    /\ out' = [shape |-> y.shape,
               data |-> [i \in 1..Len(y.data) |-> Divide(y.data[i], std)]]
    /\ pc' = "done"
    /\ UNCHANGED <<args, size, samples, f, s_scale, sr, si, y, weights, std, drawn,
                   spectrum, error, rng, rngAtCall, prev>>

Step ==
    \/ Resolve \/ Frequencies \/ Magnitudes \/ LowCutoff \/ ApplyExponent
    \/ Draw \/ Symmetry \/ Transform \/ Normalize \/ Return

Next == Step

Spec == Init /\ [][Next]_vars

(* --------------- two calls, the stream reseeded in between ------------ *)
ThisCall ==
    [called |-> TRUE, exponent |-> exponent, sizeArg |-> sizeArg, fmin |-> fmin,
     rngBefore |-> rngAtCall, rngAfter |-> rng, out |-> out, error |-> error]

\* the caller seeds the stream and calls again; the finished call is kept
CallAgain ==
    /\ pc \in {"done", "failed"}
    /\ ~prev.called
    /\ prev' = ThisCall
    /\ \E e \in DetExponents, sz \in DetSizeArgs, fm \in DetFmins, sd \in DetSeeds :
          /\ exponent' = e /\ sizeArg' = sz /\ fmin' = fm
          /\ rng' = [seed |-> sd, pos |-> 0]
          /\ rngAtCall' = [seed |-> sd, pos |-> 0]
    /\ pc' = "start"
    /\ size' = <<>> /\ samples' = RZero /\ f' = <<>> /\ s_scale' = <<>>
    /\ sr' = <<>> /\ si' = <<>> /\ drawn' = NoDraws /\ spectrum' = <<>>
    /\ y' = NoArray /\ weights' = <<>> /\ std' = RZero /\ out' = NoArray
    /\ error' = ""

InitDet ==
    /\ \E e \in DetExponents, sz \in DetSizeArgs, fm \in DetFmins, sd \in DetSeeds :
          Enter(e, sz, fm, [seed |-> sd, pos |-> 0])
    /\ prev = NoCall

NextDet == Step \/ CallAgain

SpecDet == InitDet /\ [][NextDet]_vars

(* ----------------------- vocabulary of the claims --------------------- *)
\* lines 66-80 as one expression: the scale vector multiplied into the spectrum
ScaleVector(n, e, fm) == Power(Cutoff(ScaleMagnitude(FftFreq(n), n), fm), e)

\* the same with no cutoff (fmin = 0)
PlainScale(n, e) == Power(ScaleMagnitude(FftFreq(n), n), e)

IsPositiveInt(d) == RIsInt(d) /\ RLt(RZero, d)
RequestedDims == sizeArg.dims
ValidShape == RequestedDims # <<>> /\ \A i \in 1..Len(RequestedDims) : IsPositiveInt(RequestedDims[i])
RequestedShape == [i \in 1..Len(RequestedDims) |-> RequestedDims[i][1]]
NSamples == samples[1]
NBins == NSamples \div 2 + 1
BatchCount == Prod([i \in 1..(Len(RequestedDims) - 1) |-> RequestedDims[i][1]])

AfterScale == {"draw", "symmetry", "transform", "normalize"}
AfterDraw == {"symmetry", "transform", "normalize", "return", "done"}
AfterSymmetry == {"transform", "normalize", "return", "done"}
AfterTransform == {"normalize", "return", "done"}
AfterNormalize == {"return", "done"}

RLe(a, b) == ~RLt(b, a)
NonIncreasing(s) == \A k \in 1..(Len(s) - 1) : RLe(s[k + 1], s[k])
NonDecreasing(s) == \A k \in 1..(Len(s) - 1) : RLe(s[k], s[k + 1])

(* -------------------------------- C1 ---------------------------------- *)
\* C1: a call that returns hands back an array of exactly the requested
\* shape; the spectrum it transformed had shape batch x (n \div 2 + 1).
C1_ShapeExact ==
    pc = "done" =>
        /\ out.shape = RequestedShape
        /\ Len(out.data) = Prod(RequestedShape)
        /\ size = [i \in 1..Len(RequestedDims) |->
                      IF i = Len(RequestedDims) THEN RInt(NBins) ELSE RequestedDims[i]]
        /\ Len(spectrum) = BatchCount * NBins

C1_Witness ==
    /\ pc = "done" /\ ValidShape
    /\ Len(RequestedDims) = 2 /\ NSamples = 3 /\ BatchCount = 2
    /\ Len(out.data) = 6

(* -------------------------------- C2 ---------------------------------- *)
\* the variance the non-DC bins of scale vector s give n output points, times n^2
BinPower(s, n) ==
    RSum([k \in 1..Len(s) |->
            IF k = 1 THEN RZero
            ELSE IF 2 * (k - 1) = n THEN RMul(s[k], s[k])
            ELSE RMul(RInt(4), RMul(s[k], s[k]))])

\* C2: samples^2 * std^2 = 4 * sum of scale[k]^2 over the interior bins, plus
\* scale[samples/2]^2 for the Nyquist bin of an even length.
C2_VarianceExact ==
    pc \in AfterNormalize =>
        RMul(RInt(NSamples * NSamples), std)
            = BinPower(ScaleVector(NSamples, exponent, fmin), NSamples)

C2_Witness ==
    /\ pc = "done" /\ NSamples = 6 /\ exponent = 2 /\ fmin = R(1, 3)
    /\ std # RZero
    /\ s_scale = <<RZero, RInt(3), RInt(3), ROne>>
    /\ RMul(RInt(36), std) = RInt(76)

(* -------------------------------- C3 ---------------------------------- *)
Forced(i) == Bin(i, NBins) = 1 \/ (NSamples % 2 = 0 /\ Bin(i, NBins) = NBins)

\* C3: in the spectrum handed to irfft the imaginary part of the DC bin is 0,
\* and that of the last bin is 0 when samples is even; every other imaginary
\* draw (the last bin of an odd length included) and every real draw is kept.
C3_SymmetryStep ==
    /\ pc \in AfterSymmetry =>
          /\ sr = drawn.sr
          /\ \A i \in 1..Len(si) : si[i] = IF Forced(i) THEN 0 ELSE drawn.si[i]
    /\ pc \in AfterTransform =>
          \A i \in 1..Len(spectrum) :
              /\ Forced(i) => spectrum[i][2] = RZero
              /\ spectrum[i][2] # RZero => drawn.si[i] # 0

C3_Witness ==
    /\ pc = "done" /\ NSamples = 3
    /\ \E i \in 1..Len(si) : Bin(i, NBins) = NBins /\ si[i] # 0 /\ spectrum[i][2] # RZero
    /\ \E i \in 1..Len(si) : Bin(i, NBins) = 1 /\ drawn.si[i] # 0 /\ si[i] = 0

(* -------------------------------- C4 ---------------------------------- *)
\* what the code rejects: no dimension at all, a time length that is not
\* a positive integer, a batch dimension that is negative or not an integer
Rejected ==
    \/ RequestedDims = <<>>
    \/ ~IsPositiveInt(Last(RequestedDims))
    \/ \E i \in 1..(Len(RequestedDims) - 1) :
          ~RIsInt(RequestedDims[i]) \/ RLt(RequestedDims[i], RZero)

\* C4 as stated: a shape that is not all positive integers never gets as far
\* as drawing or producing an array.
C4_AsStated == ~ValidShape => pc \notin AfterDraw

\* C4 amended: a rejected shape ends in an exception before anything is drawn
\* or produced (fftfreq raises on a bad time length, normal on a bad batch
\* dimension); a zero batch dimension is not rejected (the result is empty).
C4_RejectedShapesFail ==
    /\ Rejected => /\ pc \notin AfterDraw
                   /\ out = NoArray /\ y = NoArray /\ rng = rngAtCall
                   /\ (pc = "freq" /\ ~IsPositiveInt(samples)) => FftFreqError(samples) # ""
                   /\ pc = "draw" => NormalError(size) # ""
    /\ pc = "failed" => Rejected /\ error # ""
    /\ (pc = "done" /\ ~ValidShape) => out.data = <<>> /\ Prod(out.shape) = 0

C4_Witness ==
    /\ pc = "failed" /\ error = "ValueError"
    /\ Len(RequestedDims) = 2 /\ RLt(RequestedDims[1], RZero)
    /\ IsPositiveInt(RequestedDims[2])
    /\ s_scale # <<>>

(* -------------------------------- C5 ---------------------------------- *)
\* C5 as stated: every call that returns has std > 0 and only finite samples.
C5_AsStated ==
    pc = "done" =>
        /\ RLt(RZero, std)
        /\ \A i \in 1..Len(out.data) : out.data[i].finite

(* -------------------------------- C6 ---------------------------------- *)
\* the magnitudes before the cutoff (line 70) and the cutoff index (line 77)
PreCutoff == ScaleMagnitude(f, NSamples)
CutIx == Cardinality({k \in 1..Len(PreCutoff) : RLt(PreCutoff[k], fmin)})

\* C6 as stated: for fmin > 0 and every exponent the scale vector is
\* non-increasing, and the bins below the cutoff index are constant, equal to
\* bin ix (where there is a bin ix).
C6_AsStated ==
    (pc \in AfterScale /\ RLt(RZero, fmin)) =>
        /\ NonIncreasing(s_scale)
        /\ \A j \in 1..CutIx, k \in 1..CutIx : s_scale[j] = s_scale[k]
        /\ CutIx < Len(s_scale) => \A k \in 1..CutIx : s_scale[k] = s_scale[CutIx + 1]

\* C6 amended: for fmin > 0 the scale vector is non-increasing when
\* exponent >= 0 and non-decreasing when exponent <= 0; when ix is less than
\* the number of bins, the bins below ix all equal bin ix; when every bin is
\* below the cutoff the vector is the unclipped power law.
C6_CutoffShape ==
    (pc \in AfterScale /\ RLt(RZero, fmin)) =>
        /\ exponent >= 0 => NonIncreasing(s_scale)
        /\ exponent <= 0 => NonDecreasing(s_scale)
        /\ CutIx < Len(s_scale) => \A k \in 1..CutIx : s_scale[k] = s_scale[CutIx + 1]
        /\ CutIx = Len(s_scale) => s_scale = PlainScale(NSamples, exponent)

C6_Witness ==
    /\ pc = "draw" /\ NSamples = 6 /\ fmin = R(1, 3) /\ exponent = 2
    /\ CutIx = 2
    /\ s_scale = <<RInt(3), RInt(3), RInt(3), RInt(2)>>

(* -------------------------------- C8 ---------------------------------- *)
AppliedLast == Last(ScaleVector(NSamples, exponent, fmin))

\* C8 as stated: the factor is 1 for both parities, so the last weight in the
\* sum is what it would be with line 107 absent.
C8_AsStated ==
    pc \in AfterNormalize =>
        Last(weights) = IF Len(weights) = 1 THEN RZero
                        ELSE RMul(AppliedLast, AppliedLast)

\* C8 amended: the factor is 1 for odd samples and 1/2 for even samples, so
\* for even samples the last (Nyquist) entry is halved and its weight in the
\* sum is a quarter of the squared scale; for odd samples it is unchanged.
C8_NyquistHalved ==
    (pc \in AfterNormalize /\ Len(weights) > 1) =>
        IF NSamples % 2 = 1
        THEN /\ Last(s_scale) = AppliedLast
             /\ Last(weights) = RMul(AppliedLast, AppliedLast)
        ELSE /\ Last(s_scale) = RMul(R(1, 2), AppliedLast)
             /\ Last(weights) = RMul(R(1, 4), RMul(AppliedLast, AppliedLast))

C8_Witness ==
    /\ pc = "return" /\ NSamples = 4 /\ exponent = 0
    /\ weights = <<RZero, ROne, R(1, 4)>>

(* -------------------------------- C9 ---------------------------------- *)
MaxGridFrequency == R(NSamples \div 2, NSamples)

\* C9: a cutoff at or below 1/samples (negative included) or above every grid
\* frequency raises nothing and leaves the scale vector what fmin = 0 gives;
\* the vector differs from it only when 1/samples < fmin <= largest frequency.
C9_CutoffPermissive ==
    /\ pc \in AfterScale =>
          /\ (RLe(fmin, R(1, NSamples)) \/ RLt(MaxGridFrequency, fmin))
                => s_scale = PlainScale(NSamples, exponent)
          /\ s_scale # PlainScale(NSamples, exponent)
                => RLt(R(1, NSamples), fmin) /\ RLe(fmin, MaxGridFrequency)
    /\ pc = "failed" => Rejected /\ error \in {"IndexError", "ValueError", "ZeroDivisionError", "TypeError"}

C9_Witness ==
    /\ pc = "draw" /\ NSamples = 5 /\ fmin = R(1, 2) /\ exponent = 2
    /\ CutIx = Len(s_scale)
    /\ s_scale = <<RInt(5), RInt(5), R(5, 2)>>

(* -------------------------------- C10 --------------------------------- *)
\* C10: every entry of the scale vector multiplied into the spectrum is
\* positive (the power of k/samples, of 1/samples for DC, or of the bin they
\* were flattened to); the writes through `weights` come after the
\* multiplication and leave the transformed spectrum and y as they were.
C10_ScalePositiveWhenApplied ==
    /\ pc \in AfterScale =>
          /\ s_scale = ScaleVector(NSamples, exponent, fmin)
          /\ \A k \in 1..Len(s_scale) :
                /\ RLt(RZero, s_scale[k])
                /\ \/ s_scale[k] = RPow(R(IF k = 1 THEN 1 ELSE k - 1, NSamples),
                                        HalfPower(exponent))
                   \/ /\ k <= CutIx /\ CutIx < Len(s_scale)
                      /\ s_scale[k] = RPow(R(CutIx, NSamples), HalfPower(exponent))
    /\ pc \in AfterTransform =>
          /\ spectrum = Scaled(sr, si, ScaleVector(NSamples, exponent, fmin))
          /\ pc = "return" => y.data = Irfft(spectrum, NBins, NSamples)
          /\ \A i \in 1..Len(spectrum) :
                Bin(i, NBins) = 1 => (spectrum[i][1] = RZero <=> sr[i] = 0)
    /\ pc \in AfterNormalize => s_scale[1] = RZero

C10_Witness ==
    /\ pc = "done" /\ NSamples = 4
    /\ s_scale[1] = RZero
    /\ Last(s_scale) # AppliedLast
    /\ \E i \in 1..Len(spectrum) : Bin(i, NBins) = 1 /\ spectrum[i][1] # RZero

(* -------------------------------- C7 ---------------------------------- *)
SameCallAsPrev ==
    /\ prev.called
    /\ prev.exponent = exponent /\ prev.sizeArg = sizeArg /\ prev.fmin = fmin
    /\ prev.rngBefore = rngAtCall

====
